---- MODULE Spec2Model ----
(***************************************************************************)
(* Model of the IntelliQuery Intent Agent API (src/backend/app.py).        *)
(*                                                                         *)
(* The Flask process is modelled as a main program (setup_app, app.run)    *)
(* followed by request handlers running on worker threads (threaded=True). *)
(* JSON dictionaries are records: a key is present iff it is in the        *)
(* record's DOMAIN.  The three imported collaborators                      *)
(* (IntentAgentOrchestrator, run_intent_agent, validate_intent_schema) are *)
(* not part of src/; their behaviour follows spec.md sections 4.1-4.4.     *)
(***************************************************************************)
EXTENDS Integers, Sequences, FiniteSets, TLC

VARIABLES
    mainpc,         \* position of the __main__ block
    mainlog,        \* what the main thread has logged
    orchestrator,   \* the module-level global `orchestrator`
    th              \* per worker thread: the request it is serving

vars == <<mainpc, mainlog, orchestrator, th>>

-----------------------------------------------------------------------------
(* Bounds *)

MaxLen == 2         \* longest query text submitted
MaxSize == 1        \* largest catalog / index size loaded at startup

Threads == {"w1", "w2"}

-----------------------------------------------------------------------------
(* Python values *)

None == [py_type |-> "NoneType"]

EmptyDict == [k \in {} |-> k]

\* dict.get(key, default)
Get(d, key, default) == IF key \in DOMAIN d THEN d[key] ELSE default

Whitespace == {" "}
Alphabet == {" ", "a"}

RECURSIVE StringsUpTo(_)
StringsUpTo(n) ==
    IF n = 0 THEN {<<>>}
    ELSE LET shorter == StringsUpTo(n - 1)
         IN  shorter \cup {Append(s, c) : s \in {t \in shorter : Len(t) = n - 1}, c \in Alphabet}

Strings == StringsUpTo(MaxLen)

\* str.strip(): drop leading and trailing whitespace
RECURSIVE LStrip(_)
LStrip(s) ==
    IF s # <<>> /\ Head(s) \in Whitespace THEN LStrip(Tail(s)) ELSE s

RECURSIVE RStrip(_)
RStrip(s) ==
    IF s # <<>> /\ s[Len(s)] \in Whitespace THEN RStrip(SubSeq(s, 1, Len(s) - 1)) ELSE s

Strip(s) == RStrip(LStrip(s))

\* datetime.now().isoformat(): the clock is not modelled
Now == "now"

-----------------------------------------------------------------------------
(* Exceptions and their text (str(e)) *)

Exc(kind, msg) == [kind |-> kind, msg |-> msg]

BadRequest == Exc("BadRequest", "400 Bad Request: Failed to decode JSON object")
NoGetAttr == Exc("AttributeError", "'list' object has no attribute 'get'")
NoStripAttr == Exc("AttributeError", "'NoneType' object has no attribute 'strip'")
NotSubscriptable == Exc("TypeError", "list indices must be integers or slices, not str")
NotAMapping == Exc("TypeError", "argument of type 'NoneType' is not iterable")

\* Failures of the external collaborators (spec.md section 7).  The text of a
\* failure is not determined by its kind.
ServiceFailures ==
    {Exc("ExternalServiceError", "timed out"), Exc("ExternalServiceError", "unavailable")}

ConfigFailures ==
    {Exc("ConfigurationError", "unavailable")}

-----------------------------------------------------------------------------
(* Schema Validator: validate_intent_schema (spec.md section 4.3) *)

RequiredKeys == {"intent_type", "workspaces", "entities", "confidence"}
IntentTypes == {"read", "update", "compare", "predict", "analyze"}

MinimalIntent ==
    [intent_type |-> "read", workspaces |-> {"sales"}, entities |-> "dict", confidence |-> 0]

\* Candidate intents submitted to /api/validate or drafted by the
\* language-understanding service.  confidence is in tenths.
IntentSamples ==
    { MinimalIntent,
      [MinimalIntent EXCEPT !.confidence = 10],
      [MinimalIntent EXCEPT !.confidence = 11],
      [MinimalIntent EXCEPT !.intent_type = "bogus"],
      [MinimalIntent EXCEPT !.workspaces = {""}],
      [MinimalIntent EXCEPT !.entities = "list"],
      [intent_type |-> "read", workspaces |-> {"sales"}, entities |-> "dict"],
      [intent_type |-> "bogus"],
      None }

IsMapping(candidate) == "py_type" \notin DOMAIN candidate

\* The violations of the first failing category, all of that category.
SchemaViolations(candidate) ==
    LET missing == {[field |-> k, defect |-> "missing"] : k \in RequiredKeys \ DOMAIN candidate}
    IN  IF missing # {} THEN missing
        ELSE IF candidate.intent_type \notin IntentTypes
             THEN {[field |-> "intent_type", defect |-> "invalid"]}
        ELSE IF \E w \in candidate.workspaces : w = ""
             THEN {[field |-> "workspaces", defect |-> "invalid"]}
        ELSE IF candidate.confidence \notin 0..10
             THEN {[field |-> "confidence", defect |-> "invalid"]}
        ELSE IF candidate.entities # "dict"
             THEN {[field |-> "entities", defect |-> "invalid"]}
        ELSE {}

\* check(candidate) -> bool
validate_intent_schema(candidate) == SchemaViolations(candidate) = {}

-----------------------------------------------------------------------------
(* Validation Gate: validate(query) (spec.md section 4.1) *)

\* The judgements of the external evaluation service for one query.
Judgements == [coherent : BOOLEAN, complete : BOOLEAN]

\* Variant: stage 2 runs whatever stage 1 found.
validate_RunsBothStages(query, j) ==
    [verdict |-> [is_coherent |-> j.coherent, is_valid |-> j.complete,
                  reasons |-> (IF j.coherent THEN <<>> ELSE <<"incoherent">>)
                              \o (IF j.complete THEN <<>> ELSE <<"incomplete">>)],
     calls |-> <<"coherence_check", "completeness_check">>]

\* Stage 1, then stage 2 only if stage 1 passed.  `calls` is the sequence of
\* checks invoked.
validate(query, j) ==
    IF ~j.coherent
    THEN [verdict |-> [is_coherent |-> FALSE, is_valid |-> FALSE,
                       reasons |-> <<"incoherent">>],
          calls |-> <<"coherence_check">>]
    ELSE [verdict |-> [is_coherent |-> TRUE, is_valid |-> j.complete,
                       reasons |-> IF j.complete THEN <<>> ELSE <<"incomplete">>],
          calls |-> <<"coherence_check", "completeness_check">>]

Accepted(verdict) == verdict.is_coherent /\ verdict.is_valid

-----------------------------------------------------------------------------
(* Pipeline: IntentAgentOrchestrator.run_intent_agent / run_intent_agent   *)
(* (spec.md sections 2, 3, 4.2): Validation Gate, then extraction, then    *)
(* the Schema Validator.                                                   *)

Metadata == [index_used |-> TRUE]

Raised(e, calls) == [raised |-> TRUE, exc |-> e, calls |-> calls]
Returned(r, calls) == [raised |-> FALSE, result |-> r, calls |-> calls]

\* extract(query): the draft of the language-understanding service, checked
\* against the schema; a violation travels in the result, without an intent.
ExtractOutcomes(query, gate) ==
    LET calls == gate.calls \o <<"extract">>
    IN  {Raised(e, calls) : e \in ServiceFailures}
        \cup {IF validate_intent_schema(d)
              THEN Returned([query |-> query, validation |-> gate.verdict,
                             metadata |-> Metadata, intent_analysis |-> d],
                            calls \o <<"validate_intent_schema">>)
              ELSE Returned([query |-> query, validation |-> gate.verdict,
                             metadata |-> Metadata,
                             error |-> [kind |-> "SchemaViolation",
                                        violations |-> SchemaViolations(d)]],
                            calls \o <<"validate_intent_schema">>)
              : d \in {c \in IntentSamples : IsMapping(c)}}

\* Everything one pipeline call can do.  `configured` is whether the call goes
\* through the orchestrator built at startup.
PipelineOutcomes(query, configured) ==
    (IF configured THEN {} ELSE {Raised(e, <<>>) : e \in ConfigFailures})
    \cup {Raised(e, <<"coherence_check">>) : e \in ServiceFailures}
    \cup UNION {
            LET gate == validate(query, j)
            IN  IF Accepted(gate.verdict)
                THEN ExtractOutcomes(query, gate)
                ELSE {Returned([query |-> query, validation |-> gate.verdict,
                                metadata |-> Metadata], gate.calls)}
            : j \in Judgements}

-----------------------------------------------------------------------------
(* Pipeline Status Aggregator: orchestrator.get_pipeline_status            *)
(* (spec.md section 4.4; key names from health_check)                      *)

StatusFailure == Exc("RuntimeError", "status unavailable")

PipelineStatusOutcomes(orch) ==
    { [raised |-> FALSE,
       value |-> [workspace_catalog_size |-> orch.catalog_size,
                  faiss_index_size |-> orch.index_size]],
      [raised |-> TRUE, exc |-> StatusFailure] }

-----------------------------------------------------------------------------
(* Startup: initialize_orchestrator, setup_app, __main__ *)

Orchestrators ==
    [py_type : {"IntentAgentOrchestrator"}, catalog_size : 0..MaxSize, index_size : 0..MaxSize]

\* initialize_orchestrator(): an orchestrator, or the exception it re-raises
InitializeOutcomes ==
    {[raised |-> FALSE, value |-> o] : o \in Orchestrators}
    \cup {[raised |-> TRUE, exc |-> e] : e \in ConfigFailures}

\* Variant: setup_app without its try/except.
setup_app_Propagates(current, outcome) ==
    IF outcome.raised
    THEN [orchestrator |-> current,
          log |-> <<[level |-> "error", text |-> "Failed to initialize orchestrator"]>>,
          propagated |-> TRUE]
    ELSE [orchestrator |-> outcome.value,
          log |-> <<[level |-> "info",
                     text |-> "Intent Agent orchestrator initialized successfully"]>>,
          propagated |-> FALSE]

\* setup_app(): the value the global has afterwards, what was logged, and
\* whether the exception leaves setup_app.  `current` is the global before.
setup_app(current, outcome) ==
    IF outcome.raised
    THEN [orchestrator |-> current,
          log |-> <<[level |-> "error", text |-> "Failed to initialize orchestrator"],
                    [level |-> "error", text |-> "App setup failed"]>>,
          propagated |-> FALSE]
    ELSE [orchestrator |-> outcome.value,
          log |-> <<[level |-> "info",
                     text |-> "Intent Agent orchestrator initialized successfully"]>>,
          propagated |-> FALSE]

-----------------------------------------------------------------------------
(* Requests *)

Str(s) == [t |-> "str", s |-> s]
Null == [t |-> "null"]

QueryValues == {Null} \cup {Str(s) : s \in Strings}

NotJson == [is_json |-> FALSE]
Malformed == [is_json |-> TRUE, parsed |-> FALSE]
JsonList == [is_json |-> TRUE, parsed |-> TRUE, py_type |-> "list"]
JsonDict(d) == [is_json |-> TRUE, parsed |-> TRUE, py_type |-> "dict", data |-> d]

\* Bodies posted to /api/intent.  JsonList is a non-empty JSON array.
IntentRequests ==
    {NotJson, Malformed, JsonList, JsonDict(EmptyDict), JsonDict([include_metadata |-> FALSE])}
    \cup {JsonDict([query |-> v]) : v \in QueryValues}
    \cup {JsonDict([query |-> v, include_metadata |-> FALSE]) : v \in QueryValues}

\* Bodies posted to /api/validate.  JsonList is the array ["intent_data"].
ValidateRequests ==
    {NotJson, Malformed, JsonList, JsonDict(EmptyDict), JsonDict([other |-> Null])}
    \cup {JsonDict([intent_data |-> c]) : c \in IntentSamples}

Response(code, body) == [code |-> code, body |-> body]

LogEntry(level, text) == [level |-> level, text |-> text]

-----------------------------------------------------------------------------
(* POST /api/intent: get_intent *)

Respond(resp, log) == [kind |-> "respond", resp |-> resp, log |-> log]

IntentErrorResponse(e) ==
    Response(500, [success |-> FALSE, error |-> "Internal server error",
                   message |-> e.msg, timestamp |-> Now])

\* the except branch
IntentFault(e) ==
    Respond(IntentErrorResponse(e),
            <<LogEntry("error", "Error processing intent request")>>)

\* Variant: the test of the global is inverted.
PipelineCallee_Inverted(orch) ==
    IF orch # None THEN "run_intent_agent" ELSE "orchestrator.run_intent_agent"

\* which pipeline entry point is called
PipelineCallee(orch) ==
    IF orch = None THEN "run_intent_agent" ELSE "orchestrator.run_intent_agent"

\* Variant: the emptiness check is made on the unstripped text.
GetIntentEntry_ChecksBeforeStrip(req, orch) ==
    IF ~req.is_json
    THEN Respond(Response(400, [error |-> "Content-Type must be application/json"]), <<>>)
    ELSE IF ~req.parsed THEN IntentFault(BadRequest)
    ELSE IF req.py_type # "dict" THEN IntentFault(NoGetAttr)
    ELSE IF DOMAIN req.data = {}
    THEN Respond(Response(400, [error |-> "Request body is required"]), <<>>)
    ELSE LET value == Get(req.data, "query", Str(<<>>))
         IN  IF value.t # "str" THEN IntentFault(NoStripAttr)
             ELSE IF value.s = <<>>
                  THEN Respond(Response(400,
                           [error |-> "Query field is required and cannot be empty"]), <<>>)
                  ELSE [kind |-> "call",
                        fn |-> PipelineCallee(orch),
                        arg |-> Strip(value.s),
                        include_metadata |-> Get(req.data, "include_metadata", TRUE),
                        log |-> <<LogEntry("info", "Processing intent request for query")>>]

\* get_intent up to and including the pipeline call
GetIntentEntry(req, orch) ==
    IF ~req.is_json
    THEN Respond(Response(400, [error |-> "Content-Type must be application/json"]), <<>>)
    ELSE IF ~req.parsed THEN IntentFault(BadRequest)
    ELSE IF req.py_type # "dict" THEN IntentFault(NoGetAttr)
    ELSE IF DOMAIN req.data = {}
    THEN Respond(Response(400, [error |-> "Request body is required"]), <<>>)
    ELSE LET value == Get(req.data, "query", Str(<<>>))
         IN  IF value.t # "str" THEN IntentFault(NoStripAttr)
             ELSE LET query == Strip(value.s)
                  IN  IF query = <<>>
                      THEN Respond(Response(400,
                               [error |-> "Query field is required and cannot be empty"]), <<>>)
                      ELSE [kind |-> "call",
                            fn |-> PipelineCallee(orch),
                            arg |-> query,
                            include_metadata |-> Get(req.data, "include_metadata", TRUE),
                            log |-> <<LogEntry("info", "Processing intent request for query")>>]

\* the success response prepared from the pipeline's result
IntentSuccess(query, include_metadata, result) ==
    LET response == [success |-> TRUE,
                     query |-> query,
                     intent_analysis |-> Get(result, "intent_analysis", EmptyDict),
                     timestamp |-> Now]
    IN  Respond(Response(200,
                   IF include_metadata
                   THEN response @@ [metadata |-> Get(result, "metadata", EmptyDict)]
                   ELSE response),
                <<LogEntry("info", "Intent analysis completed successfully for query")>>)

\* Variant: a failed pipeline call is answered with a zero-confidence intent.
GetIntentReturn_DefaultsOnFailure(query, include_metadata, outcome) ==
    IF outcome.raised
    THEN IntentSuccess(query, include_metadata,
                       [intent_analysis |-> [intent_type |-> "unknown", workspaces |-> {},
                                             entities |-> "dict", confidence |-> 0]])
    ELSE IntentSuccess(query, include_metadata, outcome.result)

\* get_intent from the return of the pipeline call
GetIntentReturn(query, include_metadata, outcome) ==
    IF outcome.raised THEN IntentFault(outcome.exc)
    ELSE IntentSuccess(query, include_metadata, outcome.result)

-----------------------------------------------------------------------------
(* GET /api/status: get_status *)

\* Variant: an empty catalog or index is reported as an error.
GetStatusResponse_NeedsData(orch, outcome) ==
    IF orch = None
    THEN Respond(Response(500, [status |-> "error",
                                message |-> "Orchestrator not initialized",
                                timestamp |-> Now]), <<>>)
    ELSE IF outcome.raised
    THEN Respond(Response(500, [status |-> "error", message |-> outcome.exc.msg,
                                timestamp |-> Now]),
                 <<LogEntry("error", "Error getting status")>>)
    ELSE IF outcome.value.workspace_catalog_size = 0 \/ outcome.value.faiss_index_size = 0
    THEN Respond(Response(500, [status |-> "error", message |-> "Pipeline not loaded",
                                timestamp |-> Now]), <<>>)
    ELSE Respond(Response(200, [status |-> "operational", pipeline |-> outcome.value,
                                timestamp |-> Now, version |-> "1.0.0"]), <<>>)

\* get_status, given what get_pipeline_status did (unused when orch is None)
GetStatusResponse(orch, outcome) ==
    IF orch = None
    THEN Respond(Response(500, [status |-> "error",
                                message |-> "Orchestrator not initialized",
                                timestamp |-> Now]), <<>>)
    ELSE IF outcome.raised
    THEN Respond(Response(500, [status |-> "error", message |-> outcome.exc.msg,
                                timestamp |-> Now]),
                 <<LogEntry("error", "Error getting status")>>)
    ELSE Respond(Response(200, [status |-> "operational", pipeline |-> outcome.value,
                                timestamp |-> Now, version |-> "1.0.0"]), <<>>)

-----------------------------------------------------------------------------
(* GET /api/health: health_check *)

\* Variant: an empty index or catalog degrades the health status.
HealthCheckResponse_NeedsData(orch, outcome) ==
    IF orch # None /\ outcome.raised
    THEN Respond(Response(500, [status |-> "unhealthy", error |-> outcome.exc.msg,
                                timestamp |-> Now]),
                 <<LogEntry("error", "Health check failed")>>)
    ELSE LET basic == [orchestrator_initialized |-> orch # None, timestamp |-> Now]
             checks == IF orch # None
                       THEN basic @@
                            [pipeline_components |-> outcome.value,
                             faiss_index_available |->
                                 Get(outcome.value, "faiss_index_size", 0) > 0,
                             workspace_catalog_loaded |->
                                 Get(outcome.value, "workspace_catalog_size", 0) > 0]
                       ELSE basic
             overall_health == IF /\ Get(checks, "orchestrator_initialized", FALSE)
                                  /\ Get(checks, "faiss_index_available", FALSE)
                                  /\ Get(checks, "workspace_catalog_loaded", FALSE)
                               THEN "healthy" ELSE "degraded"
         IN  Respond(Response(IF overall_health = "healthy" THEN 200 ELSE 503,
                              [status |-> overall_health, checks |-> checks,
                               timestamp |-> Now]), <<>>)

\* health_check, given what get_pipeline_status did (unused when orch is None)
HealthCheckResponse(orch, outcome) ==
    IF orch # None /\ outcome.raised
    THEN Respond(Response(500, [status |-> "unhealthy", error |-> outcome.exc.msg,
                                timestamp |-> Now]),
                 <<LogEntry("error", "Health check failed")>>)
    ELSE LET basic == [orchestrator_initialized |-> orch # None, timestamp |-> Now]
             checks == IF orch # None
                       THEN basic @@
                            [pipeline_components |-> outcome.value,
                             faiss_index_available |->
                                 Get(outcome.value, "faiss_index_size", 0) > 0,
                             workspace_catalog_loaded |->
                                 Get(outcome.value, "workspace_catalog_size", 0) > 0]
                       ELSE basic
             overall_health == IF Get(checks, "orchestrator_initialized", FALSE)
                               THEN "healthy" ELSE "degraded"
         IN  Respond(Response(IF overall_health = "healthy" THEN 200 ELSE 503,
                              [status |-> overall_health, checks |-> checks,
                               timestamp |-> Now]), <<>>)

-----------------------------------------------------------------------------
(* POST /api/validate: validate_intent *)

\* What the call validate_intent_schema(intent_data) does: the boolean for a
\* mapping; for anything else the boolean or a fault.
ValidatorOutcomes(candidate) ==
    {[raised |-> FALSE, value |-> validate_intent_schema(candidate)]}
    \cup (IF IsMapping(candidate) THEN {} ELSE {[raised |-> TRUE, exc |-> NotAMapping]})

ValidateFault(e) ==
    Respond(Response(500, [error |-> e.msg, timestamp |-> Now]),
            <<LogEntry("error", "Error validating intent data")>>)

\* validate_intent up to the call of the validator
ValidateIntentEntry(req) ==
    IF ~req.is_json
    THEN Respond(Response(400, [error |-> "Content-Type must be application/json"]), <<>>)
    ELSE IF ~req.parsed THEN ValidateFault(BadRequest)
    ELSE IF req.py_type # "dict" THEN ValidateFault(NotSubscriptable)
    ELSE IF DOMAIN req.data = {} \/ "intent_data" \notin DOMAIN req.data
    THEN Respond(Response(400, [error |-> "intent_data field is required"]), <<>>)
    ELSE [kind |-> "call", fn |-> "validate_intent_schema", arg |-> req.data.intent_data]

\* Variant: a rejected candidate is answered as a fault.
ValidateIntentReturn_RejectionIsFault(intent_data, outcome) ==
    IF outcome.raised THEN ValidateFault(outcome.exc)
    ELSE IF ~outcome.value THEN ValidateFault(Exc("ValueError", "Invalid intent data"))
    ELSE Respond(Response(200, [valid |-> outcome.value, intent_data |-> intent_data,
                                timestamp |-> Now]), <<>>)

\* validate_intent from the return of the validator
ValidateIntentReturn(intent_data, outcome) ==
    IF outcome.raised THEN ValidateFault(outcome.exc)
    ELSE Respond(Response(200, [valid |-> outcome.value, intent_data |-> intent_data,
                                timestamp |-> Now]), <<>>)

-----------------------------------------------------------------------------
(* State machine *)

Idle == [pc |-> "idle"]

Done(endpoint, req, calls, answer) ==
    [pc |-> "done", endpoint |-> endpoint, req |-> req, calls |-> calls,
     log |-> answer.log, resp |-> answer.resp]

Init ==
    /\ mainpc = "start"
    /\ mainlog = <<>>
    /\ orchestrator = None
    /\ th = [t \in Threads |-> Idle]

StartFailed == [level |-> "error", text |-> "Failed to start server"]

\* __main__: setup_app(); an exception leaving it is logged and re-raised
SetupApp ==
    /\ mainpc = "start"
    /\ \E outcome \in InitializeOutcomes :
          LET after == setup_app(orchestrator, outcome)
          IN  /\ orchestrator' = after.orchestrator
              /\ mainlog' = mainlog \o after.log
                                \o (IF after.propagated THEN <<StartFailed>> ELSE <<>>)
              /\ mainpc' = IF after.propagated THEN "exited" ELSE "ready"
    /\ UNCHANGED th

\* __main__: app.run(..., threaded=True) serves, or fails and is re-raised
AppRun ==
    /\ mainpc = "ready"
    /\ \/ mainpc' = "serving" /\ mainlog' = mainlog
       \/ mainpc' = "exited" /\ mainlog' = Append(mainlog, StartFailed)
    /\ UNCHANGED <<orchestrator, th>>

\* get_intent is entered; it answers at once or calls the pipeline
GetIntentCall(t) ==
    /\ mainpc = "serving"
    /\ th[t].pc = "idle"
    /\ \E req \in IntentRequests :
          LET entry == GetIntentEntry(req, orchestrator)
          IN  th' = [th EXCEPT ![t] =
                       IF entry.kind = "respond"
                       THEN Done("get_intent", req, <<>>, entry)
                       ELSE [pc |-> "pipeline", endpoint |-> "get_intent", req |-> req,
                             query |-> entry.arg,
                             include_metadata |-> entry.include_metadata,
                             calls |-> <<[fn |-> entry.fn, arg |-> entry.arg]>>,
                             log |-> entry.log]]
    /\ UNCHANGED <<mainpc, mainlog, orchestrator>>

\* Variant: a pipeline call that raised is made once more.
GetIntentFinish_Retries(t) ==
    /\ th[t].pc = "pipeline"
    /\ LET call == th[t].calls[1]
           outcomes == PipelineOutcomes(call.arg, call.fn = "orchestrator.run_intent_agent")
       IN  \E first \in outcomes, second \in outcomes :
              LET last == IF first.raised THEN second ELSE first
                  answer == GetIntentReturn(th[t].query, th[t].include_metadata, last)
              IN  th' = [th EXCEPT ![t] =
                           Done("get_intent", th[t].req,
                                IF first.raised
                                THEN <<call @@ first, call @@ second>>
                                ELSE <<call @@ first>>,
                                [resp |-> answer.resp, log |-> th[t].log \o answer.log])]
    /\ UNCHANGED <<mainpc, mainlog, orchestrator>>

\* the pipeline call returns or raises; get_intent answers
GetIntentFinish(t) ==
    /\ th[t].pc = "pipeline"
    /\ LET call == th[t].calls[1]
       IN  \E outcome \in PipelineOutcomes(call.arg, call.fn = "orchestrator.run_intent_agent") :
              LET answer == GetIntentReturn(th[t].query, th[t].include_metadata, outcome)
              IN  th' = [th EXCEPT ![t] =
                           Done("get_intent", th[t].req, <<call @@ outcome>>,
                                [resp |-> answer.resp, log |-> th[t].log \o answer.log])]
    /\ UNCHANGED <<mainpc, mainlog, orchestrator>>

\* Variant: get_status builds the orchestrator when it finds none.
GetStatus_InitializesLazily(t) ==
    /\ mainpc = "serving"
    /\ th[t].pc = "idle"
    /\ \E init \in InitializeOutcomes :
          LET orch == IF orchestrator # None THEN orchestrator
                      ELSE IF init.raised THEN None ELSE init.value
          IN  /\ orchestrator' = orch
              /\ \E outcome \in (IF orch = None THEN {None}
                                  ELSE PipelineStatusOutcomes(orch)) :
                    th' = [th EXCEPT ![t] =
                             Done("get_status", None,
                                  IF orch = None THEN <<>>
                                  ELSE <<[fn |-> "orchestrator.get_pipeline_status"] @@ outcome>>,
                                  IF orch = None
                                  THEN Respond(Response(500,
                                          [status |-> "error",
                                           message |-> "Orchestrator not initialized",
                                           timestamp |-> Now]), <<>>)
                                  ELSE IF outcome.raised
                                  THEN Respond(Response(500,
                                          [status |-> "error", message |-> outcome.exc.msg,
                                           timestamp |-> Now]),
                                          <<LogEntry("error", "Error getting status")>>)
                                  ELSE Respond(Response(200,
                                          [status |-> "operational", pipeline |-> outcome.value,
                                           timestamp |-> Now, version |-> "1.0.0"]), <<>>))]
    /\ UNCHANGED <<mainpc, mainlog>>

GetStatus(t) ==
    /\ mainpc = "serving"
    /\ th[t].pc = "idle"
    /\ \E outcome \in (IF orchestrator = None THEN {None}
                       ELSE PipelineStatusOutcomes(orchestrator)) :
          th' = [th EXCEPT ![t] =
                   Done("get_status", None,
                        IF orchestrator = None THEN <<>>
                        ELSE <<[fn |-> "orchestrator.get_pipeline_status"] @@ outcome>>,
                        GetStatusResponse(orchestrator, outcome))]
    /\ UNCHANGED <<mainpc, mainlog, orchestrator>>

HealthCheck(t) ==
    /\ mainpc = "serving"
    /\ th[t].pc = "idle"
    /\ \E outcome \in (IF orchestrator = None THEN {None}
                       ELSE PipelineStatusOutcomes(orchestrator)) :
          th' = [th EXCEPT ![t] =
                   Done("health_check", None,
                        IF orchestrator = None THEN <<>>
                        ELSE <<[fn |-> "orchestrator.get_pipeline_status"] @@ outcome>>,
                        HealthCheckResponse(orchestrator, outcome))]
    /\ UNCHANGED <<mainpc, mainlog, orchestrator>>

ValidateIntent(t) ==
    /\ mainpc = "serving"
    /\ th[t].pc = "idle"
    /\ \E req \in ValidateRequests :
          LET entry == ValidateIntentEntry(req)
          IN  IF entry.kind = "respond"
              THEN th' = [th EXCEPT ![t] = Done("validate_intent", req, <<>>, entry)]
              ELSE \E outcome \in ValidatorOutcomes(entry.arg) :
                      th' = [th EXCEPT ![t] =
                               Done("validate_intent", req,
                                    <<[fn |-> entry.fn, arg |-> entry.arg] @@ outcome>>,
                                    ValidateIntentReturn(entry.arg, outcome))]
    /\ UNCHANGED <<mainpc, mainlog, orchestrator>>

\* the response has been sent; the worker takes the next request
Finish(t) ==
    /\ th[t].pc = "done"
    /\ th' = [th EXCEPT ![t] = Idle]
    /\ UNCHANGED <<mainpc, mainlog, orchestrator>>

Next ==
    \/ SetupApp
    \/ AppRun
    \/ \E t \in Threads :
          \/ GetIntentCall(t)
          \/ GetIntentFinish(t)
          \/ GetStatus(t)
          \/ HealthCheck(t)
          \/ ValidateIntent(t)
          \/ Finish(t)

Spec == Init /\ [][Next]_vars

-----------------------------------------------------------------------------
(* Properties *)

PipelineFns == {"run_intent_agent", "orchestrator.run_intent_agent"}

\* the requests in progress or answered, by endpoint
Serving(t, endpoint) == th[t].pc # "idle" /\ th[t].endpoint = endpoint
Answered(t, endpoint) == th[t].pc = "done" /\ th[t].endpoint = endpoint

\* an answered get_intent request whose pipeline call has completed
PipelineDone(t) == Answered(t, "get_intent") /\ th[t].calls # <<>>

\* the body is a JSON object whose 'query' is missing, empty or whitespace-only
BlankQuery(req) ==
    /\ req.is_json /\ req.parsed /\ req.py_type = "dict"
    /\ \/ "query" \notin DOMAIN req.data
       \/ /\ req.data.query.t = "str"
          /\ \A i \in 1..Len(req.data.query.s) : req.data.query.s[i] \in Whitespace

\* C1: get_intent never invokes the pipeline with an empty query: a missing,
\* empty or whitespace-only 'query' is answered 400 without a pipeline call,
\* and every pipeline call gets the non-empty query with the whitespace at
\* both ends removed.
C1_NeverEmptyQuery ==
    \A t \in Threads :
        Serving(t, "get_intent") =>
            /\ BlankQuery(th[t].req) =>
                  /\ th[t].pc = "done"
                  /\ th[t].calls = <<>>
                  /\ th[t].resp.code = 400
            /\ \A i \in DOMAIN th[t].calls :
                  LET call == th[t].calls[i]
                  IN  call.fn \in PipelineFns =>
                         /\ call.arg # <<>>
                         /\ Head(call.arg) \notin Whitespace
                         /\ call.arg[Len(call.arg)] \notin Whitespace
                         /\ \E pre, post \in Strings :
                               /\ \A k \in DOMAIN pre : pre[k] \in Whitespace
                               /\ \A k \in DOMAIN post : post[k] \in Whitespace
                               /\ th[t].req.data.query.s = pre \o call.arg \o post

\* A padded query is in the pipeline, stripped, while a whitespace-only one
\* has been refused.
C1_Witness ==
    \E t, u \in Threads :
        /\ th[t].pc = "pipeline"
        /\ th[t].req.data.query.s # th[t].calls[1].arg
        /\ Answered(u, "get_intent")
        /\ BlankQuery(th[u].req)
        /\ "query" \in DOMAIN th[u].req.data
        /\ th[u].req.data.query.s # <<>>
        /\ th[u].resp.code = 400

\* C2: every pipeline call of get_intent is preceded, in the same request, by
\* a validate(query) call that accepted the query (coherent and valid), and no
\* pipeline call is made for a query judged incoherent.
C2_GateBeforeExtraction ==
    \A t \in Threads :
        Serving(t, "get_intent") =>
            \A i \in DOMAIN th[t].calls :
                th[t].calls[i].fn \in PipelineFns =>
                    /\ \E j \in 1..(i - 1) :
                          /\ th[t].calls[j].fn = "validate"
                          /\ th[t].calls[j].arg = th[t].calls[i].arg
                          /\ Accepted(th[t].calls[j].value)
                    /\ "result" \in DOMAIN th[t].calls[i] =>
                          th[t].calls[i].result.validation.is_coherent

\* C3: a pipeline call that raises is answered with success=false, HTTP 500
\* and no intent_analysis.
C3_FailureIsNotSuccess ==
    \A t \in Threads :
        PipelineDone(t) /\ th[t].calls[1].raised =>
            /\ th[t].resp.code = 500
            /\ th[t].resp.body.success = FALSE
            /\ "intent_analysis" \notin DOMAIN th[t].resp.body

\* The language-understanding service timed out during extract().
C3_Witness ==
    \E t \in Threads :
        /\ PipelineDone(t)
        /\ th[t].calls[1].raised
        /\ th[t].calls[1].exc = Exc("ExternalServiceError", "timed out")
        /\ th[t].calls[1].calls = <<"coherence_check", "completeness_check", "extract">>
        /\ th[t].resp.code = 500

\* the kind of negative outcome a completed pipeline call had
FailureKind(call) ==
    IF call.raised THEN call.exc.kind
    ELSE IF "error" \in DOMAIN call.result THEN call.result.error.kind
    ELSE IF ~Accepted(call.result.validation) THEN "SemanticRejection"
    ELSE "none"

\* a response without its free text and its clock reading
Structured(resp) ==
    [code |-> resp.code,
     body |-> [k \in DOMAIN resp.body \ {"message", "timestamp"} |-> resp.body[k]]]

\* C4: the answer of get_intent identifies the kind of failure: two requests
\* for the same body whose pipeline calls failed in different kinds (external
\* service, schema violation, configuration, semantic rejection) get answers
\* that differ in more than the free-text message.
C4_FailureKindIdentified ==
    \A t, u \in Threads :
        /\ PipelineDone(t) /\ PipelineDone(u)
        /\ th[t].req = th[u].req
        /\ FailureKind(th[t].calls[1]) # "none"
        /\ FailureKind(th[u].calls[1]) # "none"
        /\ FailureKind(th[t].calls[1]) # FailureKind(th[u].calls[1])
        => Structured(th[t].resp) # Structured(th[u].resp)

\* C5: every success=true answer of get_intent carries the intent the
\* pipeline returned, with all four required keys.
C5_SuccessCarriesCompleteIntent ==
    \A t \in Threads :
        /\ Answered(t, "get_intent")
        /\ "success" \in DOMAIN th[t].resp.body
        /\ th[t].resp.body.success
        => /\ "intent_analysis" \in DOMAIN th[t].calls[1].result
           /\ th[t].resp.body.intent_analysis = th[t].calls[1].result.intent_analysis
           /\ RequiredKeys \subseteq DOMAIN th[t].resp.body.intent_analysis

\* C6 as stated: get_status answers 'operational' exactly when the global
\* orchestrator is initialized, and 'error' with HTTP 500 when it is None.
C6_OperationalIffInitialized ==
    \A t \in Threads :
        Answered(t, "get_status") =>
            /\ th[t].resp.body.status = "operational" <=> orchestrator # None
            /\ orchestrator = None =>
                  th[t].resp.body.status = "error" /\ th[t].resp.code = 500

\* C6 as amended: get_status answers 'operational' (HTTP 200) exactly when the
\* global orchestrator is initialized and get_pipeline_status does not raise,
\* whatever sizes it returns; otherwise it answers 'error' with HTTP 500.
C6_OperationalIffStatusRead ==
    \A t \in Threads :
        Answered(t, "get_status") =>
            LET read == orchestrator # None /\ ~th[t].calls[1].raised
            IN  /\ th[t].resp.body.status = "operational" <=> read
                /\ read => th[t].resp.code = 200
                /\ ~read => th[t].resp.body.status = "error" /\ th[t].resp.code = 500

\* 'operational' is answered with an empty catalog and an empty index.
C6_Witness ==
    \E t \in Threads :
        /\ Answered(t, "get_status")
        /\ th[t].resp.body.status = "operational"
        /\ th[t].resp.body.pipeline =
               [workspace_catalog_size |-> 0, faiss_index_size |-> 0]

InitializationFailed ==
    \E i \in DOMAIN mainlog : mainlog[i].text = "Failed to initialize orchestrator"

\* C7: when initialization fails at startup, setup_app swallows the failure
\* (the main program goes on to app.run), no later step assigns the global
\* orchestrator, which stays None, and every status query is answered
\* 'error' / HTTP 500.
C7_StartupFailureTolerated ==
    [][ /\ mainpc = "start" /\ InitializationFailed' => mainpc' = "ready"
        /\ InitializationFailed' => orchestrator' = None
        /\ InitializationFailed' =>
              \A t \in Threads :
                  th'[t].pc = "done" /\ th'[t].endpoint = "get_status" =>
                      /\ th'[t].resp.body.status = "error"
                      /\ th'[t].resp.code = 500 ]_vars

\* After a failed initialization the server serves, and a status query has
\* been answered.
C7_Witness ==
    /\ InitializationFailed
    /\ mainpc = "serving"
    /\ orchestrator = None
    /\ \E t \in Threads :
          Answered(t, "get_status") /\ th[t].resp.body.status = "error"

\* the request carries an intent_data field
HasIntentData(req) ==
    req.is_json /\ req.parsed /\ req.py_type = "dict" /\ "intent_data" \in DOMAIN req.data

\* C8: for a /api/validate request that carries intent_data, a false verdict
\* of validate_intent_schema is answered HTTP 200 with valid=false and the
\* submitted intent_data unchanged; HTTP 500 is answered only when the
\* validator raised.
C8_RejectionInResultChannel ==
    \A t \in Threads :
        Answered(t, "validate_intent") /\ HasIntentData(th[t].req) =>
            /\ Len(th[t].calls) = 1
            /\ ~th[t].calls[1].raised /\ ~th[t].calls[1].value =>
                  /\ th[t].resp.code = 200
                  /\ th[t].resp.body.valid = FALSE
                  /\ th[t].resp.body.intent_data = th[t].req.data.intent_data
            /\ th[t].resp.code = 500 => th[t].calls[1].raised

\* A candidate without 'confidence' has been rejected.
C8_Witness ==
    \E t \in Threads :
        /\ Answered(t, "validate_intent")
        /\ HasIntentData(th[t].req)
        /\ "confidence" \notin DOMAIN th[t].req.data.intent_data
        /\ IsMapping(th[t].req.data.intent_data)
        /\ th[t].resp.code = 200
        /\ th[t].resp.body.valid = FALSE

\* C9: a rejection answered by validate_intent comes with the violations: the
\* response holds more than valid / intent_data / timestamp, or the request
\* logged something.
C9_RejectionCarriesDetail ==
    \A t \in Threads :
        /\ Answered(t, "validate_intent")
        /\ HasIntentData(th[t].req)
        /\ ~th[t].calls[1].raised
        /\ ~th[t].calls[1].value
        => \/ DOMAIN th[t].resp.body \ {"valid", "intent_data", "timestamp"} # {}
           \/ th[t].log # <<>>

\* the checks the Validation Gate invoked during a completed pipeline call
GateCalls(call) == {call.calls[i] : i \in DOMAIN call.calls}

\* C10: a verdict with is_coherent=false never has is_valid=true, and the
\* completeness check was not invoked for that query.
C10_IncoherentStopsGate ==
    \A t \in Threads :
        PipelineDone(t) /\ ~th[t].calls[1].raised =>
            LET verdict == th[t].calls[1].result.validation
            IN  ~verdict.is_coherent =>
                    /\ verdict.is_valid # TRUE
                    /\ "completeness_check" \notin GateCalls(th[t].calls[1])
                    /\ "extract" \notin GateCalls(th[t].calls[1])

\* A query was judged incoherent; another passed both stages.
C10_Witness ==
    \E t, u \in Threads :
        /\ PipelineDone(t) /\ ~th[t].calls[1].raised
        /\ ~th[t].calls[1].result.validation.is_coherent
        /\ "coherence_check" \in GateCalls(th[t].calls[1])
        /\ PipelineDone(u) /\ ~th[u].calls[1].raised
        /\ Accepted(th[u].calls[1].result.validation)
        /\ "completeness_check" \in GateCalls(th[u].calls[1])

\* some worker's request changed in this step
HandlerStep == \E t \in Threads : th'[t] # th[t]

\* C11: under any interleaving of the workers' requests no handler writes the
\* global orchestrator: it is assigned only by setup_app, in the one step
\* taken before the server serves and before any request has begun, so every
\* request handled finds the reference that step left.
C11_OrchestratorWrittenOnlyAtStartup ==
    [][ /\ HandlerStep => orchestrator' = orchestrator
        /\ orchestrator' # orchestrator =>
              /\ mainpc = "start"
              /\ mainpc' # "start"
              /\ \A t \in Threads : th[t] = Idle
        /\ mainpc # "start" => orchestrator' = orchestrator ]_vars

\* Two workers are inside handlers at the same time, one of them waiting on
\* the orchestrator's pipeline, the other answering a status query from it.
C11_Witness ==
    \E t, u \in Threads :
        /\ orchestrator # None
        /\ th[t].pc = "pipeline"
        /\ th[t].calls[1].fn = "orchestrator.run_intent_agent"
        /\ Answered(u, "get_status")
        /\ th[u].resp.body.status = "operational"

\* the body passes the input checks of get_intent
PassesInputChecks(req) ==
    /\ req.is_json /\ req.parsed /\ req.py_type = "dict"
    /\ "query" \in DOMAIN req.data
    /\ req.data.query.t = "str"
    /\ \E i \in 1..Len(req.data.query.s) : req.data.query.s[i] \notin Whitespace

\* C12: get_intent does not retry: a request that passes the input checks
\* makes exactly one pipeline call, to orchestrator.run_intent_agent when the
\* orchestrator is set and to run_intent_agent otherwise, and when that call
\* raises the answer is HTTP 500 with still one call made; a request that
\* fails the input checks makes none.
C12_OnePipelineCall ==
    \A t \in Threads :
        Serving(t, "get_intent") =>
            /\ PassesInputChecks(th[t].req) =>
                  /\ Len(th[t].calls) = 1
                  /\ th[t].calls[1].fn \in PipelineFns
                  /\ th[t].calls[1].fn = "orchestrator.run_intent_agent"
                        <=> orchestrator # None
                  /\ th[t].pc = "done" /\ th[t].calls[1].raised => th[t].resp.code = 500
            /\ ~PassesInputChecks(th[t].req) => th[t].calls = <<>>

\* A pipeline call raised and was answered 500; the fallback was used.
C12_Witness ==
    \E t \in Threads :
        /\ orchestrator = None
        /\ PipelineDone(t)
        /\ th[t].calls[1].fn = "run_intent_agent"
        /\ th[t].calls[1].raised
        /\ th[t].resp.code = 500

\* get_intent answered success=true
Succeeded(t) ==
    /\ Answered(t, "get_intent")
    /\ "success" \in DOMAIN th[t].resp.body
    /\ th[t].resp.body.success

\* C13 as stated: an intent request is answered with success only in a state
\* where the orchestrator is initialized, the state in which get_status can
\* report 'operational'.
C13_SuccessOnlyWhenOperational ==
    \A t \in Threads : Succeeded(t) => orchestrator # None

\* C13 as amended: get_intent answers success whenever its pipeline call
\* returns, with or without an orchestrator: while the orchestrator is None
\* the call is the fallback run_intent_agent, and get_status in that state
\* answers 'error'; whenever get_status answers 'operational' the
\* orchestrator is set and a succeeding request went through
\* orchestrator.run_intent_agent.
C13_SuccessFollowsPipelineReturn ==
    /\ \A t \in Threads :
          /\ Succeeded(t) =>
                /\ Len(th[t].calls) = 1
                /\ ~th[t].calls[1].raised
                /\ th[t].calls[1].fn = "run_intent_agent" <=> orchestrator = None
          /\ PipelineDone(t) /\ ~th[t].calls[1].raised => Succeeded(t)
    /\ \A u \in Threads :
          Answered(u, "get_status") =>
              /\ orchestrator = None => th[u].resp.body.status = "error"
              /\ th[u].resp.body.status = "operational" =>
                    /\ orchestrator # None
                    /\ \A t \in Threads :
                          Succeeded(t) =>
                              th[t].calls[1].fn = "orchestrator.run_intent_agent"

\* With no orchestrator, an intent request succeeded through the fallback
\* while a status query was answered 'error'.
C13_Witness ==
    \E t, u \in Threads :
        /\ orchestrator = None
        /\ Succeeded(t)
        /\ th[t].calls[1].fn = "run_intent_agent"
        /\ RequiredKeys \subseteq DOMAIN th[t].resp.body.intent_analysis
        /\ Answered(u, "get_status")
        /\ th[u].resp.body.status = "error"
        /\ th[u].resp.code = 500

\* what the status read of an answered get_status / health_check request did
StatusRead(t) == orchestrator # None /\ ~th[t].calls[1].raised

\* C14: health_check answers 'healthy' / 200 exactly when the orchestrator is
\* set and get_pipeline_status does not raise, the condition under which
\* get_status answers 'operational' / 200; with no orchestrator they answer
\* 'degraded' / 503 and 'error' / 500; empty sizes only turn
\* faiss_index_available / workspace_catalog_loaded false.  Two requests that
\* saw the same status read agree.
C14_HealthAgreesWithStatus ==
    /\ \A t \in Threads :
          Answered(t, "health_check") =>
              /\ th[t].resp.body.status = "healthy" <=> StatusRead(t)
              /\ th[t].resp.code = 200 <=> StatusRead(t)
              /\ orchestrator = None =>
                    /\ th[t].resp.body.status = "degraded"
                    /\ th[t].resp.code = 503
                    /\ DOMAIN th[t].resp.body.checks = {"orchestrator_initialized", "timestamp"}
              /\ StatusRead(t) =>
                    /\ th[t].resp.body.checks.faiss_index_available
                          <=> orchestrator.index_size > 0
                    /\ th[t].resp.body.checks.workspace_catalog_loaded
                          <=> orchestrator.catalog_size > 0
    /\ \A u \in Threads :
          Answered(u, "get_status") =>
              /\ th[u].resp.body.status = "operational" <=> StatusRead(u)
              /\ th[u].resp.code = 200 <=> StatusRead(u)
              /\ orchestrator = None =>
                    th[u].resp.body.status = "error" /\ th[u].resp.code = 500
    /\ \A t, u \in Threads :
          /\ Answered(t, "health_check")
          /\ Answered(u, "get_status")
          /\ th[t].calls = th[u].calls
          => /\ th[t].resp.body.status = "healthy"
                   <=> th[u].resp.body.status = "operational"
             /\ th[t].resp.code = 200 <=> th[u].resp.code = 200

\* With an empty catalog and an empty index, health_check answered 'healthy'
\* and get_status 'operational'.
C14_Witness ==
    \E t, u \in Threads :
        /\ Answered(t, "health_check")
        /\ th[t].resp.body.status = "healthy"
        /\ ~th[t].resp.body.checks.faiss_index_available
        /\ ~th[t].resp.body.checks.workspace_catalog_loaded
        /\ Answered(u, "get_status")
        /\ th[u].resp.body.status = "operational"

====
